---- MODULE Spec2Model ----
(***************************************************************************)
(* Model of src/main.go: the loan-application chaincode.                   *)
(*                                                                         *)
(* The chaincode is a set of handlers run by the host ledger, one          *)
(* invocation (transaction) at a time.  It keeps no state of its own: what *)
(* lasts is what it has written through the stub, the key/value ledger     *)
(* (PutState), and each transaction carries the events it has set          *)
(* (SetEvent).  Every stub call may fail; whether it does is an input of   *)
(* the invocation.                                                         *)
(*                                                                         *)
(* src/main.go does not compile as written.  The model reads the three     *)
(* slips the way the surrounding code shows they were meant:               *)
(*   line 77   errors.Name(...)         is errors.New(...)                 *)
(*   line 155  GetState(loanAppId)      is GetState(loanAppID)             *)
(*   line 160  var ... loanApplication  is the type LoanApplication        *)
(* and Invoke, which has no return for a function name other than          *)
(* CreateLoanApplication (line 79), returns (nil, nil) without doing       *)
(* anything there, as Query does on line 66.                               *)
(***************************************************************************)
EXTENDS Integers, Sequences, FiniteSets, TLC

(***************************************************************************)
(* Bounds.                                                                 *)
(***************************************************************************)
\* the longest argument list an invocation is given
MaxArgs == 2

(***************************************************************************)
(* Go strings and byte slices.  A value is nil (a nil []byte), plain text, *)
(* or a JSON document; string(b) and []byte(s) keep the content.           *)
(***************************************************************************)
JNull == [t |-> "null", s |-> "", n |-> 0, m |-> <<>>]
JStr(x) == [t |-> "str", s |-> x, n |-> 0, m |-> <<>>]
JNum(x) == [t |-> "num", s |-> "", n |-> x, m |-> <<>>]
JObj(ms) == [t |-> "obj", s |-> "", n |-> 0, m |-> ms]
Mem(key, val) == [k |-> key, v |-> val]

NilBytes == [kind |-> "nil", text |-> "", top |-> JNull]
Text(x) == [kind |-> "text", text |-> x, top |-> JNull]
Json(v) == [kind |-> "json", text |-> "", top |-> v]

(***************************************************************************)
(* The record types (lines 13-46) and their zero values.                   *)
(***************************************************************************)
PersonalInfoFields ==
    << [name |-> "Firstname", tag |-> "firstname", type |-> "string"],
       [name |-> "Lastname",  tag |-> "lastname",  type |-> "string"],
       [name |-> "DOB",       tag |-> "DOB",       type |-> "string"],
       [name |-> "Email",     tag |-> "email",     type |-> "string"],
       [name |-> "Mobile",    tag |-> "mobile",    type |-> "string"] >>

FinancialInfoFields ==
    << [name |-> "MonthlySalary",      tag |-> "monthlySalary",      type |-> "int"],
       [name |-> "MonthlyRent",        tag |-> "monthlyRent",        type |-> "int"],
       [name |-> "OtherExpenditure",   tag |-> "otherExpenditure",   type |-> "int"],
       [name |-> "MonthlyLoanPayment", tag |-> "monthlyLoanPayment", type |-> "int"] >>

LoanApplicationFields ==
    << [name |-> "ID",               tag |-> "id",               type |-> "string"],
       [name |-> "PropertyID",       tag |-> "PropertyID",       type |-> "string"],
       [name |-> "LandID",           tag |-> "LandID",           type |-> "string"],
       [name |-> "PermitID",         tag |-> "PermitID",         type |-> "string"],
       [name |-> "BuyerID",          tag |-> "BuyerID",          type |-> "string"],
       [name |-> "SalesContractID",  tag |-> "SalesContractID",  type |-> "string"],
       [name |-> "PersonalInfo",     tag |-> "personalInfo",     type |-> "PersonalInfo"],
       [name |-> "FinancialInfo",    tag |-> "financialInfo",    type |-> "FinancialInfo"],
       [name |-> "Status",           tag |-> "status",           type |-> "string"],
       [name |-> "RequestedAmount",  tag |-> "requestedAmount",  type |-> "int"],
       [name |-> "FairMarketValue",  tag |-> "fairMarketValue",  type |-> "int"],
       [name |-> "ApprovedAmount",   tag |-> "approvedAmount",   type |-> "int"],
       [name |-> "ReviewerID",       tag |-> "ReviewerID",       type |-> "string"],
       [name |-> "LastModifiedDate", tag |-> "lastModifiedDate", type |-> "string"] >>

FieldsOf(type) ==
    IF type = "PersonalInfo" THEN PersonalInfoFields
    ELSE IF type = "FinancialInfo" THEN FinancialInfoFields
    ELSE LoanApplicationFields

ZeroPersonalInfo ==
    [Firstname |-> "", Lastname |-> "", DOB |-> "", Email |-> "", Mobile |-> ""]

ZeroFinancialInfo ==
    [MonthlySalary |-> 0, MonthlyRent |-> 0, OtherExpenditure |-> 0,
     MonthlyLoanPayment |-> 0]

ZeroLoanApplication ==
    [ID |-> "", PropertyID |-> "", LandID |-> "", PermitID |-> "", BuyerID |-> "",
     SalesContractID |-> "", PersonalInfo |-> ZeroPersonalInfo,
     FinancialInfo |-> ZeroFinancialInfo, Status |-> "", RequestedAmount |-> 0,
     FairMarketValue |-> 0, ApprovedAmount |-> 0, ReviewerID |-> "",
     LastModifiedDate |-> ""]

(***************************************************************************)
(* Go errors: the empty sequence is nil, anything else is the message, in  *)
(* the pieces the code concatenates.                                       *)
(***************************************************************************)
NoErr == <<>>
ErrorsNew(msg) == <<msg>>

(***************************************************************************)
(* json.Unmarshal(laBytes, &loanApplication), line 161.                    *)
(*                                                                         *)
(* The input is first checked for syntax: bytes that are not JSON (nil and *)
(* empty included) leave the target untouched and give an error.  A JSON   *)
(* null leaves the target untouched without an error; any other non-object *)
(* is a type error.  An object's members are taken in order: a key picks   *)
(* the field whose tag it equals, or else the field whose tag it equals    *)
(* ignoring case; a key that picks no field is skipped; a value of the     *)
(* wrong type leaves its field alone, is remembered as the error (the      *)
(* first one wins) and decoding goes on.                                   *)
(***************************************************************************)
FoldCase(key) ==
    CASE key \in {"ID", "Id", "id"} -> "id"
      [] key \in {"PropertyID", "propertyid"} -> "propertyid"
      [] key \in {"LandID", "landid"} -> "landid"
      [] key \in {"PermitID", "permitid"} -> "permitid"
      [] key \in {"BuyerID", "buyerid"} -> "buyerid"
      [] key \in {"SalesContractID", "salescontractid"} -> "salescontractid"
      [] key \in {"personalInfo", "PersonalInfo"} -> "personalinfo"
      [] key \in {"financialInfo", "FinancialInfo"} -> "financialinfo"
      [] key \in {"status", "Status", "STATUS"} -> "status"
      [] key \in {"requestedAmount", "RequestedAmount"} -> "requestedamount"
      [] key \in {"fairMarketValue", "FairMarketValue"} -> "fairmarketvalue"
      [] key \in {"approvedAmount", "ApprovedAmount"} -> "approvedamount"
      [] key \in {"ReviewerID", "reviewerid"} -> "reviewerid"
      [] key \in {"lastModifiedDate", "LastModifiedDate"} -> "lastmodifieddate"
      [] key \in {"firstname", "Firstname"} -> "firstname"
      [] key \in {"lastname", "Lastname"} -> "lastname"
      [] key \in {"DOB", "dob"} -> "dob"
      [] key \in {"email", "Email"} -> "email"
      [] key \in {"mobile", "Mobile"} -> "mobile"
      [] key \in {"monthlySalary", "MonthlySalary"} -> "monthlysalary"
      [] key \in {"monthlyRent", "MonthlyRent"} -> "monthlyrent"
      [] key \in {"otherExpenditure", "OtherExpenditure"} -> "otherexpenditure"
      [] key \in {"monthlyLoanPayment", "MonthlyLoanPayment"} -> "monthlyloanpayment"
      [] OTHER -> key

\* the index of the field a JSON key picks, 0 when it picks none
FieldFor(fields, key) ==
    LET exact == {i \in 1..Len(fields) : fields[i].tag = key}
        fold  == {i \in 1..Len(fields) : FoldCase(fields[i].tag) = FoldCase(key)}
    IN IF exact # {} THEN CHOOSE i \in exact : \A j \in exact : i <= j
       ELSE IF fold # {} THEN CHOOSE i \in fold : \A j \in fold : i <= j
       ELSE 0

UnmarshalTypeError == ErrorsNew("json: cannot unmarshal value into Go struct field")
SyntaxError == ErrorsNew("json: invalid character or unexpected end of JSON input")

FirstErr(e1, e2) == IF e1 # NoErr THEN e1 ELSE e2

RECURSIVE DecodeMembers(_, _, _)
DecodeMembers(fields, cur, ms) ==
    IF ms = <<>> THEN [val |-> cur, err |-> NoErr]
    ELSE
      LET mem == Head(ms)
          i == FieldFor(fields, mem.k)
          step ==
            IF i = 0 \/ mem.v.t = "null" THEN [val |-> cur, err |-> NoErr]
            ELSE
              LET fd == fields[i] IN
              CASE fd.type = "string" ->
                     IF mem.v.t = "str"
                     THEN [val |-> [cur EXCEPT ![fd.name] = mem.v.s], err |-> NoErr]
                     ELSE [val |-> cur, err |-> UnmarshalTypeError]
                [] fd.type = "int" ->
                     IF mem.v.t = "num"
                     THEN [val |-> [cur EXCEPT ![fd.name] = mem.v.n], err |-> NoErr]
                     ELSE [val |-> cur, err |-> UnmarshalTypeError]
                [] OTHER ->
                     IF mem.v.t = "obj"
                     THEN LET sub == DecodeMembers(FieldsOf(fd.type), cur[fd.name], mem.v.m)
                          IN [val |-> [cur EXCEPT ![fd.name] = sub.val], err |-> sub.err]
                     ELSE [val |-> cur, err |-> UnmarshalTypeError]
          rest == DecodeMembers(fields, step.val, Tail(ms))
      IN [val |-> rest.val, err |-> FirstErr(step.err, rest.err)]

JsonUnmarshal(bytes, target) ==
    IF bytes.kind # "json" THEN [val |-> target, err |-> SyntaxError]
    ELSE IF bytes.top.t = "null" THEN [val |-> target, err |-> NoErr]
    ELSE IF bytes.top.t # "obj" THEN [val |-> target, err |-> UnmarshalTypeError]
    ELSE DecodeMembers(LoanApplicationFields, target, bytes.top.m)

(***************************************************************************)
(* json.Marshal(&loanApplication), line 164: every field, in declaration   *)
(* order, under its tag; it cannot fail for this type.                     *)
(***************************************************************************)
EncodeLeaf(fd, x) == IF fd.type = "int" THEN JNum(x) ELSE JStr(x)

EncodeFlat(fields, val) ==
    JObj([i \in 1..Len(fields) |->
            Mem(fields[i].tag, EncodeLeaf(fields[i], val[fields[i].name]))])

EncodeField(fd, x) ==
    IF fd.type \in {"PersonalInfo", "FinancialInfo"}
    THEN EncodeFlat(FieldsOf(fd.type), x)
    ELSE EncodeLeaf(fd, x)

JsonMarshal(val) ==
    [bytes |-> Json(JObj([i \in 1..Len(LoanApplicationFields) |->
                  Mem(LoanApplicationFields[i].tag,
                      EncodeField(LoanApplicationFields[i],
                                  val[LoanApplicationFields[i].name]))])),
     err |-> NoErr]

(***************************************************************************)
(* The stub (shim.ChaincodeStubInterface), as the handlers use it.  Each   *)
(* operation takes the outcome the host gives the call (ok) and returns    *)
(* what the handler sees, with the record of the call.                     *)
(*                                                                         *)
(* GetState of a key nothing was stored under succeeds with nil bytes:     *)
(* the handlers are given no error to tell a missing key by.               *)
(***************************************************************************)
Call(op, key, value, ok) == [op |-> op, key |-> key, value |-> value, ok |-> ok]

GetState(ledger, key, ok) ==
    IF ok THEN [bytes |-> ledger[key], err |-> NoErr,
                call |-> Call("GetState", key.text, NilBytes, TRUE)]
    ELSE [bytes |-> NilBytes, err |-> ErrorsNew("GetState failed"),
          call |-> Call("GetState", key.text, NilBytes, FALSE)]

PutState(ledger, key, value, ok) ==
    IF ok THEN [ledger |-> [ledger EXCEPT ![key] = value], err |-> NoErr,
                call |-> Call("PutState", key.text, value, TRUE)]
    ELSE [ledger |-> ledger, err |-> ErrorsNew("PutState failed"),
          call |-> Call("PutState", key.text, value, FALSE)]

SetEvent(events, name, payload, ok) ==
    IF ok THEN [events |-> Append(events, [name |-> name, payload |-> payload]),
                err |-> NoErr,
                call |-> Call("SetEvent", name, NilBytes, TRUE)]
    ELSE [events |-> events, err |-> ErrorsNew("SetEvent failed"),
          call |-> Call("SetEvent", name, NilBytes, FALSE)]

\* cert: attribute name -> [ok, val], what the host answers for the caller
ReadCertAttribute(cert, attributeName) ==
    IF cert[attributeName].ok
    THEN [attr |-> cert[attributeName].val, err |-> NoErr]
    ELSE [attr |-> "", err |-> ErrorsNew("attribute not found")]

(***************************************************************************)
(* What a handler returns: the world it leaves (ledger, events), the Go    *)
(* result (payload, err) and the stub calls it made, in order.             *)
(***************************************************************************)
Outcome(ledger, events, payload, err, calls) ==
    [ledger |-> ledger, events |-> events, payload |-> payload, err |-> err,
     calls |-> calls]

\* lines 115 and 177: the event text, in the pieces the code concatenates
CustomEvent(eventType, loanAppID, what) ==
    <<"{eventType: '", eventType, "', description: '", loanAppID.text, what, "'}">>

(***************************************************************************)
(* GetCertAttribute, lines 188-196.                                        *)
(***************************************************************************)
GetCertAttribute(cert, attributeName) ==
    LET r == ReadCertAttribute(cert, attributeName) IN
    IF r.err # NoErr
    THEN [val |-> "",
          err |-> <<"Couldn't get attribute ", attributeName, ". Error: ">> \o r.err]
    ELSE [val |-> r.attr, err |-> NoErr]

\* CreateLoanApplication as it would be with the argument check off by one
\* and the record taken from the last argument
CreateLoanApplication_LooseArgCheck(ledger, events, args, gw) ==
    IF Len(args) < 1
    THEN Outcome(ledger, events, NilBytes,
                 ErrorsNew("Expected at least 2 arguments"), <<>>)
    ELSE
      LET loanAppID == args[1]
          loanAppInput == args[Len(args)]
          put == PutState(ledger, loanAppID, loanAppInput, gw.put)
          ev  == SetEvent(events, "evtSender",
                          CustomEvent("loanApplicationCreation", loanAppID,
                                      " Successfully created"),
                          gw.event)
      IN IF put.err # NoErr
         THEN Outcome(put.ledger, events, NilBytes, put.err, <<put.call>>)
         ELSE IF ev.err # NoErr
         THEN Outcome(put.ledger, ev.events, NilBytes, ev.err, <<put.call, ev.call>>)
         ELSE Outcome(put.ledger, ev.events, NilBytes, NoErr, <<put.call, ev.call>>)

\* CreateLoanApplication as it would be if a failed SetEvent undid the write
CreateLoanApplication_RollBack(ledger, events, args, gw) ==
    IF Len(args) < 2
    THEN Outcome(ledger, events, NilBytes,
                 ErrorsNew("Expected at least 2 arguments"), <<>>)
    ELSE
      LET loanAppID == args[1]
          loanAppInput == args[2]
          put == PutState(ledger, loanAppID, loanAppInput, gw.put)
          ev  == SetEvent(events, "evtSender",
                          CustomEvent("loanApplicationCreation", loanAppID,
                                      " Successfully created"),
                          gw.event)
          undo == PutState(put.ledger, loanAppID, ledger[loanAppID], TRUE)
      IN IF put.err # NoErr
         THEN Outcome(put.ledger, events, NilBytes, put.err, <<put.call>>)
         ELSE IF ev.err # NoErr
         THEN Outcome(undo.ledger, ev.events, NilBytes, ev.err,
                      <<put.call, ev.call, undo.call>>)
         ELSE Outcome(put.ledger, ev.events, NilBytes, NoErr, <<put.call, ev.call>>)

(***************************************************************************)
(* CreateLoanApplication, lines 98-123.  gw gives the outcome of each stub *)
(* call the handler may make.                                              *)
(***************************************************************************)
CreateLoanApplication(ledger, events, args, gw) ==
    IF Len(args) < 2
    THEN Outcome(ledger, events, NilBytes,
                 ErrorsNew("Expected at least 2 arguments"), <<>>)
    ELSE
      LET loanAppID == args[1]
          loanAppInput == args[2]
          put == PutState(ledger, loanAppID, loanAppInput, gw.put)
          ev  == SetEvent(events, "evtSender",
                          CustomEvent("loanApplicationCreation", loanAppID,
                                      " Successfully created"),
                          gw.event)
      IN IF put.err # NoErr
         THEN Outcome(put.ledger, events, NilBytes, put.err, <<put.call>>)
         ELSE IF ev.err # NoErr
         THEN Outcome(put.ledger, ev.events, NilBytes, ev.err, <<put.call, ev.call>>)
         ELSE Outcome(put.ledger, ev.events, NilBytes, NoErr, <<put.call, ev.call>>)

\* GetLoanApplication as it would be if it decoded and re-encoded what it
\* read instead of returning it verbatim
GetLoanApplication_Normalising(ledger, events, args, gw) ==
    IF Len(args) < 1
    THEN Outcome(ledger, events, NilBytes,
                 ErrorsNew("Missing loan application ID"), <<>>)
    ELSE
      LET loanAppId == args[1]
          got == GetState(ledger, loanAppId, gw.get)
      IN IF got.err # NoErr
         THEN Outcome(ledger, events, NilBytes, got.err, <<got.call>>)
         ELSE Outcome(ledger, events,
                      JsonMarshal(JsonUnmarshal(got.bytes, ZeroLoanApplication).val).bytes,
                      NoErr, <<got.call>>)

(***************************************************************************)
(* GetLoanApplication, lines 126-141.                                      *)
(***************************************************************************)
GetLoanApplication(ledger, events, args, gw) ==
    IF Len(args) < 1
    THEN Outcome(ledger, events, NilBytes,
                 ErrorsNew("Missing loan application ID"), <<>>)
    ELSE
      LET loanAppId == args[1]
          got == GetState(ledger, loanAppId, gw.get)
      IN IF got.err # NoErr
         THEN Outcome(ledger, events, NilBytes, got.err, <<got.call>>)
         ELSE Outcome(ledger, events, got.bytes, NoErr, <<got.call>>)

\* UpdateLoanApplication as it would be if it also stamped LastModifiedDate
UpdateLoanApplication_Stamping(ledger, events, args, gw) ==
    IF Len(args) < 2
    THEN Outcome(ledger, events, NilBytes,
                 ErrorsNew("Expected at least 2 arguments for loan application update"),
                 <<>>)
    ELSE
      LET loanAppID == args[1]
          status == args[2]
          got == GetState(ledger, loanAppID, gw.get)
          dec == JsonUnmarshal(got.bytes, ZeroLoanApplication)
          loanApplication == [dec.val EXCEPT !.Status = status.text,
                                             !.LastModifiedDate = "now"]
          enc == JsonMarshal(loanApplication)
          put == PutState(ledger, loanAppID, enc.bytes, gw.put)
          ev  == SetEvent(events, "evtSender",
                          CustomEvent("loanApplicationUpdate", loanAppID,
                                      " Successfully updated"),
                          gw.event)
      IN IF got.err # NoErr
         THEN Outcome(ledger, events, NilBytes, got.err, <<got.call>>)
         ELSE IF put.err # NoErr
         THEN Outcome(put.ledger, events, NilBytes, put.err, <<got.call, put.call>>)
         ELSE IF ev.err # NoErr
         THEN Outcome(put.ledger, ev.events, NilBytes, ev.err,
                      <<got.call, put.call, ev.call>>)
         ELSE Outcome(put.ledger, ev.events, NilBytes, NoErr,
                      <<got.call, put.call, ev.call>>)

(***************************************************************************)
(* UpdateLoanApplication, lines 144-185.  The error of json.Unmarshal      *)
(* (line 161) is overwritten by json.Marshal's on line 164 before anything *)
(* reads it, so the handler goes on with whatever was decoded.             *)
(***************************************************************************)
UpdateLoanApplication(ledger, events, args, gw) ==
    IF Len(args) < 2
    THEN Outcome(ledger, events, NilBytes,
                 ErrorsNew("Expected at least 2 arguments for loan application update"),
                 <<>>)
    ELSE
      LET loanAppID == args[1]
          status == args[2]
          got == GetState(ledger, loanAppID, gw.get)
          dec == JsonUnmarshal(got.bytes, ZeroLoanApplication)
          loanApplication == [dec.val EXCEPT !.Status = status.text]
          enc == JsonMarshal(loanApplication)
          put == PutState(ledger, loanAppID, enc.bytes, gw.put)
          ev  == SetEvent(events, "evtSender",
                          CustomEvent("loanApplicationUpdate", loanAppID,
                                      " Successfully updated"),
                          gw.event)
      IN IF got.err # NoErr
         THEN Outcome(ledger, events, NilBytes, got.err, <<got.call>>)
         ELSE IF enc.err # NoErr
         THEN Outcome(ledger, events, NilBytes, enc.err, <<got.call>>)
         ELSE IF put.err # NoErr
         THEN Outcome(put.ledger, events, NilBytes, put.err, <<got.call, put.call>>)
         ELSE IF ev.err # NoErr
         THEN Outcome(put.ledger, ev.events, NilBytes, ev.err,
                      <<got.call, put.call, ev.call>>)
         ELSE Outcome(put.ledger, ev.events, NilBytes, NoErr,
                      <<got.call, put.call, ev.call>>)

\* Invoke as it would be without the role check
Invoke_NoRoleGate(ledger, events, function, args, cert, gw) ==
    IF function = "CreateLoanApplication"
    THEN CreateLoanApplication(ledger, events, args, gw)
    ELSE Outcome(ledger, events, NilBytes, NoErr, <<>>)

(***************************************************************************)
(* The entry points of SampleChainCode, lines 56-79.                       *)
(***************************************************************************)
ChaincodeInit(ledger, events, function, args) ==
    Outcome(ledger, events, NilBytes, NoErr, <<>>)

Query(ledger, events, function, args, gw) ==
    IF function = "GetLoanApplication"
    THEN GetLoanApplication(ledger, events, args, gw)
    ELSE Outcome(ledger, events, NilBytes, NoErr, <<>>)

Invoke(ledger, events, function, args, cert, gw) ==
    IF function = "CreateLoanApplication"
    THEN
      LET username == GetCertAttribute(cert, "username").val
          role == GetCertAttribute(cert, "role").val
      IN IF role = "Bank_Home_Loan_Admin"
         THEN CreateLoanApplication(ledger, events, args, gw)
         ELSE Outcome(ledger, events, NilBytes,
                      <<username, " with role ", role,
                        " does not have correct permissions">>,
                      <<>>)
    ELSE Outcome(ledger, events, NilBytes, NoErr, <<>>)

(***************************************************************************)
(* Inputs.                                                                 *)
(***************************************************************************)
Ids == {Text("LA1"), Text("LA2")}

\* a record with every field set, its members out of declaration order,
\* one key in another case and one key the type does not know
RecFull ==
    Json(JObj(<<
      Mem("STATUS", JStr("Submitted")),
      Mem("id", JStr("LA1")),
      Mem("comment", JStr("urgent")),
      Mem("PropertyID", JStr("P1")),
      Mem("LandID", JStr("L1")),
      Mem("PermitID", JStr("M1")),
      Mem("BuyerID", JStr("B1")),
      Mem("SalesContractID", JStr("S1")),
      Mem("financialInfo", JObj(<<
          Mem("monthlySalary", JNum(5000)), Mem("monthlyRent", JNum(1200)),
          Mem("otherExpenditure", JNum(300)), Mem("monthlyLoanPayment", JNum(150)) >>)),
      Mem("personalInfo", JObj(<<
          Mem("firstname", JStr("Ada")), Mem("lastname", JStr("Byron")),
          Mem("DOB", JStr("1815-12-10")), Mem("email", JStr("ada@example.org")),
          Mem("mobile", JStr("555-0100")) >>)),
      Mem("requestedAmount", JNum(200000)),
      Mem("fairMarketValue", JNum(250000)),
      Mem("approvedAmount", JNum(180000)),
      Mem("ReviewerID", JStr("R1")),
      Mem("lastModifiedDate", JStr("2017-01-01")) >>))

\* bytes that are not JSON
RecGarbage == Text("not json")

\* well-formed JSON that does not decode: a string where an int is declared
\* (most fields are absent, too)
RecMistyped ==
    Json(JObj(<< Mem("id", JStr("LA1")), Mem("requestedAmount", JStr("lots")),
                 Mem("ReviewerID", JStr("R9")) >>))

Records == {RecFull, RecGarbage, RecMistyped}

Statuses == {Text("Approved"), Text("Rejected")}

Attr(val) == [ok |-> TRUE, val |-> val]
NoAttr == [ok |-> FALSE, val |-> ""]
Certs ==
    { [username |-> Attr("alice"), role |-> Attr("Bank_Home_Loan_Admin")],
      [username |-> Attr("bob"),   role |-> Attr("Loan_Officer")],
      [username |-> NoAttr,        role |-> NoAttr] }
\* the caller of an invocation that reads no attribute
NoCert == [username |-> NoAttr, role |-> NoAttr]

\* argument lists: an id, then a value from seconds, then filler
ArgLists(seconds) ==
    UNION { { [i \in 1..n |-> IF i = 1 THEN id ELSE IF i = 2 THEN x ELSE Text("extra")]
              : id \in Ids, x \in seconds }
            : n \in 0..MaxArgs }

\* the outcomes of the stub calls of one invocation; a handler returns at
\* the first call that fails, so at most one of them is a failure
AllOk == [get |-> TRUE, put |-> TRUE, event |-> TRUE]
Gateways ==
    { AllOk, [AllOk EXCEPT !.get = FALSE], [AllOk EXCEPT !.put = FALSE],
      [AllOk EXCEPT !.event = FALSE] }

(***************************************************************************)
(* State.                                                                  *)
(*   ledger   the value stored under each key (NilBytes: nothing)          *)
(*   events   the events the latest transaction has set (the stub holds    *)
(*            them per transaction; each invocation starts with none)      *)
(*   last     the latest invocation: what was called, with what, what it   *)
(*            returned and the stub calls it made                          *)
(*   written  per key, the latest successful PutState: the handler that    *)
(*            made it, the handler's second argument and the value put     *)
(***************************************************************************)
VARIABLES ledger, events, last, written

vars == <<ledger, events, last, written>>

Invocation(entry, function, args, cert, out) ==
    [entry |-> entry, function |-> function, args |-> args, cert |-> cert,
     payload |-> out.payload, err |-> out.err, calls |-> out.calls]

NoWrite == [by |-> "none", arg |-> NilBytes, value |-> NilBytes]

\* the record of the successful PutState calls of an invocation
Record(handler, args, calls) ==
    [id \in Ids |->
       IF \E i \in 1..Len(calls) :
            calls[i].op = "PutState" /\ calls[i].ok /\ calls[i].key = id.text
       THEN LET puts == {j \in 1..Len(calls) :
                          calls[j].op = "PutState" /\ calls[j].ok /\ calls[j].key = id.text}
                i == CHOOSE j \in puts : \A k \in puts : k <= j
            IN [by |-> handler, arg |-> args[2], value |-> calls[i].value]
       ELSE written[id]]

Init ==
    /\ ledger = [id \in Ids |-> NilBytes]
    /\ events = <<>>
    /\ last = [entry |-> "none", function |-> "", args |-> <<>>, cert |-> NoCert,
               payload |-> NilBytes, err |-> NoErr, calls |-> <<>>]
    /\ written = [id \in Ids |-> NoWrite]

\* what an invocation leaves behind
Commit(entry, function, handler, args, cert, out) ==
    /\ ledger' = out.ledger
    /\ events' = out.events
    /\ last' = Invocation(entry, function, args, cert, out)
    /\ written' = Record(handler, args, out.calls)

\* the host calls Init (lines 57-59)
DoInit ==
    Commit("Init", "init", "none", <<>>, NoCert,
           ChaincodeInit(ledger, <<>>, "init", <<>>))

\* the host calls Invoke with CreateLoanApplication (lines 71-78); the
\* handler makes no GetState call, so its outcome is not drawn
InvokeCreate ==
    \E args \in ArgLists(Records), cert \in Certs, gw \in Gateways :
      /\ gw.get
      /\ Commit("Invoke", "CreateLoanApplication", "CreateLoanApplication", args, cert,
                Invoke(ledger, <<>>, "CreateLoanApplication", args, cert, gw))

\* the host calls Invoke with any other function name (line 79)
InvokeOther ==
    \E function \in {"UpdateLoanApplication", "GetLoanApplication"},
       args \in ArgLists({Text("Approved")}) :
      Commit("Invoke", function, "none", args, NoCert,
             Invoke(ledger, <<>>, function, args, NoCert, AllOk))

\* the host calls Query with GetLoanApplication (lines 63-65); the handler
\* makes no PutState or SetEvent call
QueryGet ==
    \E args \in ArgLists({Text("extra")}), gw \in Gateways :
      /\ gw.put /\ gw.event
      /\ Commit("Query", "GetLoanApplication", "GetLoanApplication", args, NoCert,
                Query(ledger, <<>>, "GetLoanApplication", args, gw))

\* the host calls Query with any other function name (line 66)
QueryOther ==
    \E args \in ArgLists({Text("Approved")}) :
      Commit("Query", "UpdateLoanApplication", "none", args, NoCert,
             Query(ledger, <<>>, "UpdateLoanApplication", args, AllOk))

\* UpdateLoanApplication is called (lines 144-185); no entry point dispatches
\* to it, so the call is the function's own
Update ==
    \E args \in ArgLists(Statuses), gw \in Gateways :
      Commit("UpdateLoanApplication", "UpdateLoanApplication", "UpdateLoanApplication",
             args, NoCert, UpdateLoanApplication(ledger, <<>>, args, gw))

Next ==
    \/ DoInit
    \/ InvokeCreate
    \/ InvokeOther
    \/ QueryGet
    \/ QueryOther
    \/ Update

Spec == Init /\ [][Next]_vars

(***************************************************************************)
(* Vocabulary of the properties.                                           *)
(***************************************************************************)
Decodes(bytes) == JsonUnmarshal(bytes, ZeroLoanApplication).err = NoErr
FieldsIn(bytes) == JsonUnmarshal(bytes, ZeroLoanApplication).val

IsCreate(inv) == inv.entry = "Invoke" /\ inv.function = "CreateLoanApplication"
IsRead(inv) == inv.entry = "Query" /\ inv.function = "GetLoanApplication"
IsUpdate(inv) == inv.entry = "UpdateLoanApplication"
IsAdmin(cert) == cert.role.ok /\ cert.role.val = "Bank_Home_Loan_Admin"

InvalidArguments(err) ==
    err \in { ErrorsNew("Expected at least 2 arguments"),
              ErrorsNew("Expected at least 2 arguments for loan application update"),
              ErrorsNew("Missing loan application ID") }
PermissionDenied(inv) ==
    inv.err = << inv.cert.username.val, " with role ", inv.cert.role.val,
                 " does not have correct permissions" >>

Made(inv, op, ok) == {i \in 1..Len(inv.calls) : inv.calls[i].op = op /\ inv.calls[i].ok = ok}
Attempted(inv, op) == {i \in 1..Len(inv.calls) : inv.calls[i].op = op}

CreationNotice(id) ==
    [name |-> "evtSender",
     payload |-> <<"{eventType: '", "loanApplicationCreation", "', description: '",
                   id.text, " Successfully created", "'}">>]
UpdateNotice(id) ==
    [name |-> "evtSender",
     payload |-> <<"{eventType: '", "loanApplicationUpdate", "', description: '",
                   id.text, " Successfully updated", "'}">>]

(***************************************************************************)
(* C1.  Create then Read is a byte-exact round trip: while the latest      *)
(* write under id is Create's, a successful GetLoanApplication(id) returns *)
(* exactly the bytes that Create was given.                                *)
(***************************************************************************)
C1_RoundTrip ==
    \A id \in Ids :
      ( /\ IsRead(last) /\ last.err = NoErr
        /\ Len(last.args) >= 1 /\ last.args[1] = id
        /\ written[id].by = "CreateLoanApplication" )
      => last.payload = written[id].arg

\* a record that re-encoding would change has been created and read back
C1_Witness ==
    /\ IsRead(last) /\ last.err = NoErr /\ Len(last.args) >= 1
    /\ written[last.args[1]].by = "CreateLoanApplication"
    /\ written[last.args[1]].arg = RecFull
    /\ last.payload = RecFull

(***************************************************************************)
(* C2.  CreateLoanApplication invoked by a caller whose role is not        *)
(* Bank_Home_Loan_Admin, or cannot be read, fails with PermissionDenied    *)
(* (naming the username and the role), makes no PutState and no SetEvent   *)
(* call, and leaves the ledger as it was, whatever the arguments.          *)
(***************************************************************************)
C2_Step ==
    (IsCreate(last') /\ ~IsAdmin(last'.cert))
    => /\ PermissionDenied(last')
       /\ Attempted(last', "PutState") = {} /\ Attempted(last', "SetEvent") = {}
       /\ ledger' = ledger /\ events' = <<>>

C2_Unauthorized == [][C2_Step]_vars

\* a loan officer was refused a well-formed Create on a ledger that holds a record
C2_Witness ==
    /\ IsCreate(last) /\ last.cert.role.val = "Loan_Officer"
    /\ Len(last.args) = 2 /\ last.args[2] = RecFull
    /\ PermissionDenied(last)
    /\ \E id \in Ids : ledger[id] # NilBytes

(***************************************************************************)
(* C3.  CreateLoanApplication with fewer than 2 arguments fails, with      *)
(* InvalidArguments once the handler is entered (the caller is the admin), *)
(* and the ledger and the events are exactly what they were.               *)
(***************************************************************************)
C3_Step ==
    (IsCreate(last') /\ Len(last'.args) < 2)
    => /\ last'.err # NoErr
       /\ IsAdmin(last'.cert) => last'.err = ErrorsNew("Expected at least 2 arguments")
       /\ last'.calls = <<>>
       /\ ledger' = ledger /\ events' = <<>> /\ written' = written

C3_TooFewArguments == [][C3_Step]_vars

\* the admin called Create with the id alone, on a ledger that holds a record
C3_Witness ==
    /\ IsCreate(last) /\ IsAdmin(last.cert) /\ Len(last.args) = 1
    /\ InvalidArguments(last.err)
    /\ \E id \in Ids : ledger[id] # NilBytes

(***************************************************************************)
(* C4.  A successful UpdateLoanApplication(id, s) on a stored record (the  *)
(* bytes under id decode as a LoanApplication) leaves under id a record    *)
(* that decodes, whose Status is s and whose every other field is what it  *)
(* was; the values under the other keys are unchanged.                     *)
(***************************************************************************)
C4_Step ==
    (/\ IsUpdate(last') /\ last'.err = NoErr /\ Len(last'.args) >= 2
     /\ Decodes(ledger[last'.args[1]]))
    => LET id == last'.args[1]
           s == last'.args[2].text
       IN /\ Decodes(ledger'[id])
          /\ FieldsIn(ledger'[id]) = [FieldsIn(ledger[id]) EXCEPT !.Status = s]
          /\ \A other \in Ids \ {id} : ledger'[other] = ledger[other]

C4_OnlyStatusChanges == [][C4_Step]_vars

\* the full record, stored by Create, has been updated to Approved and the
\* other key holds a record too
C4_Witness ==
    /\ IsUpdate(last) /\ last.err = NoErr /\ Len(last.args) >= 2
    /\ FieldsIn(ledger[last.args[1]]) = [FieldsIn(RecFull) EXCEPT !.Status = "Approved"]
    /\ FieldsIn(RecFull).LastModifiedDate = "2017-01-01"
    /\ FieldsIn(RecFull).Status = "Submitted"
    /\ \E other \in Ids \ {last.args[1]} : ledger[other] # NilBytes

(***************************************************************************)
(* C5.  UpdateLoanApplication(id, status) on an id nothing was ever stored *)
(* under fails and writes nothing: afterwards the ledger still has no      *)
(* value under id and no event was set.  Stated for the invocations in     *)
(* which no stub call fails, so that a failure can only be the handler's.  *)
(***************************************************************************)
NoStubFailure(inv) == \A i \in 1..Len(inv.calls) : inv.calls[i].ok

C5_Step ==
    (/\ IsUpdate(last') /\ Len(last'.args) >= 2 /\ NoStubFailure(last')
     /\ written[last'.args[1]].by = "none" /\ ledger[last'.args[1]] = NilBytes)
    => /\ last'.err # NoErr
       /\ ledger'[last'.args[1]] = NilBytes
       /\ events' = <<>>

C5_UpdateOfMissingFails == [][C5_Step]_vars

(***************************************************************************)
(* C6.  GetLoanApplication(id) on an id nothing was ever stored under      *)
(* fails (NotFound); it never succeeds with nil bytes.                     *)
(***************************************************************************)
C6_ReadOfMissingFails ==
    ( /\ IsRead(last) /\ Len(last.args) >= 1
      /\ written[last.args[1]].by = "none" /\ ledger[last.args[1]] = NilBytes )
    => last.err # NoErr

(***************************************************************************)
(* C7.  When the bytes stored under id do not decode as a LoanApplication, *)
(* UpdateLoanApplication(id, status) fails (MalformedRecord), makes no     *)
(* PutState call, leaves the bytes under id as they were and sets no       *)
(* event.  Stated for the invocations in which no stub call fails.         *)
(***************************************************************************)
C7_Step ==
    (/\ IsUpdate(last') /\ Len(last'.args) >= 2 /\ NoStubFailure(last')
     /\ ledger[last'.args[1]] # NilBytes /\ ~Decodes(ledger[last'.args[1]]))
    => /\ last'.err # NoErr
       /\ Attempted(last', "PutState") = {}
       /\ ledger'[last'.args[1]] = ledger[last'.args[1]]
       /\ events' = <<>>

C7_UpdateOfMalformedFails == [][C7_Step]_vars

(***************************************************************************)
(* C8.  Invoke dispatches UpdateLoanApplication: right after a successful  *)
(* Create of id with a record that decodes, an invocation of               *)
(* Invoke("UpdateLoanApplication", [id, s]) makes the stored record's      *)
(* Status equal s.                                                         *)
(***************************************************************************)
C8_Step ==
    (/\ IsCreate(last) /\ last.err = NoErr /\ Len(last.args) >= 2
     /\ Decodes(last.args[2])
     /\ last'.entry = "Invoke" /\ last'.function = "UpdateLoanApplication"
     /\ Len(last'.args) >= 2 /\ last'.args[1] = last.args[1])
    => FieldsIn(ledger'[last'.args[1]]).Status = last'.args[2].text

C8_InvokeDispatchesUpdate == [][C8_Step]_vars

(***************************************************************************)
(* C9.  In Create and in Update, when the PutState under id succeeds and   *)
(* the SetEvent after it fails, the invocation reports the failure and the *)
(* value just put stays under id; a GetLoanApplication(id) that follows    *)
(* returns it.                                                             *)
(***************************************************************************)
PutThenEventFailed(inv) ==
    /\ IsCreate(inv) \/ IsUpdate(inv)
    /\ Made(inv, "PutState", TRUE) # {}
    /\ Made(inv, "SetEvent", FALSE) # {}

ValuePut(inv) == inv.calls[CHOOSE i \in Made(inv, "PutState", TRUE) : TRUE].value

C9_Step ==
    /\ PutThenEventFailed(last')
       => /\ last'.err # NoErr
          /\ Cardinality(Attempted(last', "PutState")) = 1
          /\ ledger'[last'.args[1]] = ValuePut(last')
          /\ IsCreate(last') => ValuePut(last') = last'.args[2]
    /\ (/\ PutThenEventFailed(last)
        /\ IsRead(last') /\ last'.err = NoErr
        /\ Len(last'.args) >= 1 /\ last'.args[1] = last.args[1])
       => last'.payload = ValuePut(last)

C9_NoRollback == [][C9_Step]_vars

\* an Update's write went through, its event did not, and the written
\* record is in the ledger while the invocation has failed
C9_Witness ==
    /\ IsUpdate(last) /\ PutThenEventFailed(last)
    /\ last.err # NoErr
    /\ FieldsIn(ledger[last.args[1]]).Status = last.args[2].text
    /\ \E id \in Ids : written[id].by = "CreateLoanApplication" /\ ledger[id] = RecGarbage

(***************************************************************************)
(* C10.  Within an invocation an event is set only after the invocation's  *)
(* PutState has succeeded, and at most once.  A successful Create(id) sets *)
(* exactly the loanApplicationCreation event naming id on evtSender, a     *)
(* successful Update(id) exactly the loanApplicationUpdate event naming    *)
(* id; an invocation that fails on argument count, authorization, read,    *)
(* decode or put, and every Read, sets none.                               *)
(***************************************************************************)
\* the part that does not depend on how a handler takes a failed decode
EventDiscipline ==
    /\ Cardinality(Attempted(last, "SetEvent")) <= 1
    /\ \A i \in Attempted(last, "SetEvent") :
         \E j \in Made(last, "PutState", TRUE) : j < i
    /\ Len(events) = Cardinality(Made(last, "SetEvent", TRUE))
    /\ (IsCreate(last) /\ last.err = NoErr) => events = <<CreationNotice(last.args[1])>>
    /\ (IsUpdate(last) /\ last.err = NoErr) => events = <<UpdateNotice(last.args[1])>>
    /\ last.err # NoErr => events = <<>>
    /\ ~(IsCreate(last) \/ IsUpdate(last)) => events = <<>>

\* the decode of an Update fails: it has read bytes that are no LoanApplication
DecodeFails(id) ==
    /\ IsUpdate(last') /\ Len(last'.args) >= 2 /\ last'.args[1] = id
    /\ Made(last', "GetState", TRUE) # {}
    /\ ledger[id] # NilBytes /\ ~Decodes(ledger[id])

C10_Step ==
    /\ EventDiscipline'
    /\ \A id \in Ids : DecodeFails(id) => events' = <<>>

C10_EventsOnlyAfterSuccess == [][C10_Step]_vars

====
